---- MODULE Spec2Model ----
(***************************************************************************)
(* The interactive AWS parameter collector of function-clarity             *)
(* (cmd/function-clarity/cli/aws/init.go).  Text is modelled as a sequence *)
(* of one-character strings, so that trimming, lower-casing and splitting  *)
(* are computed as the Go code computes them.                              *)
(***************************************************************************)
EXTENDS Naturals, Sequences, FiniteSets, TLC

VARIABLES
    rec,    \* the AWSInput record the caller passed by pointer
    pc,     \* position of ReceiveParameters (or "prompt"/"done" for one call)
    ret,    \* the error ReceiveParameters (or the prompt) returned, Nil if none
    log     \* history: every prompt issued, Gateway query made, generation run

vars == <<rec, pc, ret, log>>

----------------------------------------------------------------------------
(* Bounds *)

\* longest answer typed at a single prompt called on its own
MaxLen == 2
\* longest answer typed at a free-text prompt of the whole wizard
MaxTextLen == 1

----------------------------------------------------------------------------
(* Text *)

NL == "\n"

Empty == <<>>

Alphabet == {"a", ",", " ", "y", "Y", "n", "N", "1", "2", "9"}

Strs(alphabet, n) == UNION {[1..k -> alphabet] : k \in 0..n}

\* unicode.IsSpace on the characters a line can hold
IsSpace(c) == c \in {" ", "\t", "\n", "\r"}

\* strings.ToLower on one character
LowerChar(c) ==
    CASE c = "Y" -> "y"
      [] c = "N" -> "n"
      [] c = "A" -> "a"
      [] OTHER -> c

ToLower(s) == [k \in 1..Len(s) |-> LowerChar(s[k])]

TrimSuffix(s, suffix) ==
    IF Len(s) >= Len(suffix) /\ SubSeq(s, Len(s) - Len(suffix) + 1, Len(s)) = suffix
    THEN SubSeq(s, 1, Len(s) - Len(suffix))
    ELSE s

RECURSIVE TrimLeft(_)
TrimLeft(s) ==
    IF s # <<>> /\ IsSpace(Head(s)) THEN TrimLeft(Tail(s)) ELSE s

RECURSIVE TrimRight(_)
TrimRight(s) ==
    IF s # <<>> /\ IsSpace(s[Len(s)]) THEN TrimRight(SubSeq(s, 1, Len(s) - 1)) ELSE s

TrimSpace(s) == TrimRight(TrimLeft(s))

\* strings.Split(s, sep) for a one-character separator: never an empty slice
RECURSIVE Split(_, _)
Split(s, sep) ==
    IF \E k \in 1..Len(s) : s[k] = sep
    THEN LET i == CHOOSE k \in 1..Len(s) : s[k] = sep /\ \A j \in 1..(k - 1) : s[j] # sep
         IN  <<SubSeq(s, 1, i - 1)>> \o Split(SubSeq(s, i + 1, Len(s)), sep)
    ELSE <<s>>

----------------------------------------------------------------------------
(* Errors *)

\* An error is its message: the leading phrase, and what the message is about.
Nil == [kind |-> "nil", about |-> ""]
\* io.EOF, or any other error of the underlying read
ErrRead == [kind |-> "io", about |-> "EOF"]
ErrCompulsory == [kind |-> "this is a compulsory parameter", about |-> ""]
ErrCredentials == [kind |-> "validation error", about |-> "credentials"]
ErrBucket == [kind |-> "validation error", about |-> "bucket"]
ErrSnsTopic == [kind |-> "validation error", about |-> "SNS topic"]
\* the message receiveAndValidateCloudTrail returns
ErrCloudTrail == [kind |-> "validation error", about |-> "SNS topic"]
\* whatever generate.GenerateKeyPairCmd fails with
ErrGenerate == [kind |-> "generate", about |-> ""]

----------------------------------------------------------------------------
(* bufio.Reader.ReadString('\n'): the text up to and including the first   *)
(* newline with a nil error, or the text read before the failure (which    *)
(* holds no newline) with the error.                                       *)

ReadString(alphabet, n) ==
    {[input |-> Append(s, NL), err |-> Nil] : s \in Strs(alphabet, n)}
        \cup {[input |-> s, err |-> ErrRead] : s \in Strs(alphabet, n)}

----------------------------------------------------------------------------
(* The four prompts.  Each takes the result of the read, the value the     *)
(* target held and the em flag (TRUE: the answer may be empty), and gives  *)
(* the value the target holds afterwards and the error returned.           *)

\* variant: the answer is stored before the compulsory check
inputStringParameter_StoreFirst(r, p, em) ==
    LET input == TrimSuffix(r.input, <<NL>>)
    IN  [p |-> input, err |-> IF ~em /\ input = Empty THEN ErrCompulsory ELSE r.err]

inputStringParameter(r, p, em) ==
    LET input == TrimSuffix(r.input, <<NL>>)
    IN  IF ~em /\ input = Empty
        THEN [p |-> p, err |-> ErrCompulsory]
        ELSE [p |-> TrimSuffix(input, <<NL>>), err |-> r.err]

inputStringArrayParameter(r, p, em) ==
    LET input == TrimSpace(TrimSuffix(r.input, <<NL>>))
        parts == Split(input, ",")
    IN  IF ~em /\ input = Empty
        THEN [p |-> p, err |-> ErrCompulsory]
        ELSE [p |-> [k \in 1..Len(parts) |-> TrimSpace(parts[k])], err |-> r.err]

\* variant: the answer is compared without lower-casing
inputYesNoParameter_NoLower(r, p, em) ==
    LET line == TrimSuffix(r.input, <<NL>>)
        input == TrimSpace(line)
    IN  IF ~em /\ line = Empty
        THEN [p |-> p, err |-> ErrCompulsory]
        ELSE [p |-> IF input = <<"y">> THEN TRUE
                    ELSE IF input = <<"n">> THEN FALSE
                    ELSE p,
              err |-> r.err]

inputYesNoParameter(r, p, em) ==
    LET line == TrimSuffix(r.input, <<NL>>)
        input == ToLower(TrimSpace(line))
    IN  IF ~em /\ line = Empty
        THEN [p |-> p, err |-> ErrCompulsory]
        ELSE [p |-> IF input = <<"y">> THEN TRUE
                    ELSE IF input = <<"n">> THEN FALSE
                    ELSE p,
              err |-> r.err]

\* variant: an answer matching no key clears the field
inputMultipleChoiceParameter_ClearUnmatched(r, p, m, em) ==
    LET input == TrimSuffix(r.input, <<NL>>)
    IN  IF r.err # Nil
        THEN [p |-> p, err |-> r.err]
        ELSE IF ~em /\ input = Empty
        THEN [p |-> p, err |-> ErrCompulsory]
        ELSE [p |-> IF input \in DOMAIN m THEN m[input] ELSE Empty, err |-> Nil]

inputMultipleChoiceParameter(r, p, m, em) ==
    LET input == TrimSuffix(r.input, <<NL>>)
        chosen == IF input \in DOMAIN m THEN m[input] ELSE p
    IN  IF r.err # Nil
        THEN [p |-> p, err |-> r.err]
        ELSE IF ~em /\ input = Empty
        THEN [p |-> p, err |-> ErrCompulsory]
        ELSE IF input = Empty
        THEN [p |-> Empty, err |-> Nil]
        ELSE [p |-> chosen, err |-> Nil]

----------------------------------------------------------------------------
(* The configuration record *)

Detect == <<"d", "e", "t", "e", "c", "t">>
Block == <<"b", "l", "o", "c", "k">>
CosignPub == <<"c", "o", "s", "i", "g", "n", ".", "p", "u", "b">>
CosignKey == <<"c", "o", "s", "i", "g", "n", ".", "k", "e", "y">>

\* map[string]string{"1": "detect", "2": "block"}
ActionChoices == (<<"1">> :> Detect) @@ (<<"2">> :> Block)

\* the zero value of AWSInput
AWSInput ==
    [AccessKey |-> Empty, SecretKey |-> Empty, Region |-> Empty, Bucket |-> Empty,
     IncludedFuncTagKeys |-> <<>>, IncludedFuncRegions |-> <<>>,
     Action |-> Empty, SnsTopicArn |-> Empty, CloudTrail |-> [Name |-> Empty],
     IsKeyless |-> FALSE, PublicKey |-> Empty, PrivateKey |-> Empty]

----------------------------------------------------------------------------
(* History entries *)

\* a prompt was printed and one read made for it
Prompted(op, em, r, prior, res) ==
    [kind |-> "prompt", op |-> op, em |-> em, arg |-> r.input, readErr |-> r.err,
     prior |-> prior, ok |-> res.err = Nil]

\* a Gateway query, or the key-pair generation, was made and answered b
Called(op, arg, b) == [kind |-> "call", op |-> op, arg |-> arg, ok |-> b]

----------------------------------------------------------------------------
(* What the operator may type at each prompt of the wizard *)

TextAnswers == ReadString({"a"}, MaxTextLen)

ListAnswers ==
    {[input |-> <<NL>>, err |-> Nil], [input |-> <<" ", NL>>, err |-> Nil],
     [input |-> <<"a", NL>>, err |-> Nil],
     [input |-> <<"a", ",", " ", "a", NL>>, err |-> Nil],
     [input |-> <<>>, err |-> ErrRead], [input |-> <<"a">>, err |-> ErrRead]}

ChoiceAnswers == ReadString({"1", "2", "9"}, 1)

YesNoAnswers ==
    {[input |-> <<NL>>, err |-> Nil], [input |-> <<"y", NL>>, err |-> Nil],
     [input |-> <<"Y", NL>>, err |-> Nil], [input |-> <<"n", NL>>, err |-> Nil],
     [input |-> <<" ", "N", " ", NL>>, err |-> Nil], [input |-> <<"a", NL>>, err |-> Nil],
     [input |-> <<" ", NL>>, err |-> Nil],
     [input |-> <<>>, err |-> ErrRead], [input |-> <<"y">>, err |-> ErrRead]}

----------------------------------------------------------------------------
(* ReceiveParameters, one action per prompt, query and generation *)

\* variant: the error is recorded but the wizard goes on
Goto_Continue(err, next) ==
    /\ pc' = next
    /\ ret' = err

\* if err != nil { return err }, else on to the next step
Goto(err, next) ==
    /\ pc' = IF err = Nil THEN next ELSE "done"
    /\ ret' = err

PromptAccessKey ==
    /\ pc = "AccessKey"
    /\ \E r \in TextAnswers :
        LET res == inputStringParameter(r, rec.AccessKey, FALSE)
        IN  /\ rec' = [rec EXCEPT !.AccessKey = res.p]
            /\ log' = Append(log, Prompted("AccessKey", FALSE, r, rec.AccessKey, res))
            /\ Goto(res.err, "SecretKey")

PromptSecretKey ==
    /\ pc = "SecretKey"
    /\ \E r \in TextAnswers :
        LET res == inputStringParameter(r, rec.SecretKey, FALSE)
        IN  /\ rec' = [rec EXCEPT !.SecretKey = res.p]
            /\ log' = Append(log, Prompted("SecretKey", FALSE, r, rec.SecretKey, res))
            /\ Goto(res.err, "Region")

PromptRegion ==
    /\ pc = "Region"
    /\ \E r \in TextAnswers :
        LET res == inputStringParameter(r, rec.Region, FALSE)
        IN  /\ rec' = [rec EXCEPT !.Region = res.p]
            /\ log' = Append(log, Prompted("Region", FALSE, r, rec.Region, res))
            /\ Goto(res.err, "ValidateCredentials")

\* variant: a failed check hands back a cleared record
ValidateCredentials_Rollback ==
    /\ pc = "ValidateCredentials"
    /\ \E credentials \in BOOLEAN :
        /\ log' = Append(log, Called("ValidateCredentials",
                                     <<rec.AccessKey, rec.SecretKey, rec.Region>>, credentials))
        /\ Goto(IF credentials THEN Nil ELSE ErrCredentials, "Bucket")
        /\ rec' = IF credentials THEN rec ELSE AWSInput

ValidateCredentials ==
    /\ pc = "ValidateCredentials"
    /\ \E credentials \in BOOLEAN :
        /\ log' = Append(log, Called("ValidateCredentials",
                                     <<rec.AccessKey, rec.SecretKey, rec.Region>>, credentials))
        /\ Goto(IF credentials THEN Nil ELSE ErrCredentials, "Bucket")
    /\ UNCHANGED rec

PromptBucket ==
    /\ pc = "Bucket"
    /\ \E r \in TextAnswers :
        LET res == inputStringParameter(r, rec.Bucket, TRUE)
        IN  /\ rec' = [rec EXCEPT !.Bucket = res.p]
            /\ log' = Append(log, Prompted("Bucket", TRUE, r, rec.Bucket, res))
            /\ Goto(res.err, IF res.p # Empty THEN "IsBucketExist" ELSE "IncludedFuncTagKeys")

IsBucketExist ==
    /\ pc = "IsBucketExist"
    /\ \E exists \in BOOLEAN :
        /\ log' = Append(log, Called("IsBucketExist", rec.Bucket, exists))
        /\ Goto(IF exists THEN Nil ELSE ErrBucket, "IncludedFuncTagKeys")
    /\ UNCHANGED rec

PromptIncludedFuncTagKeys ==
    /\ pc = "IncludedFuncTagKeys"
    /\ \E r \in ListAnswers :
        LET res == inputStringArrayParameter(r, rec.IncludedFuncTagKeys, TRUE)
        IN  /\ rec' = [rec EXCEPT !.IncludedFuncTagKeys = res.p]
            /\ log' = Append(log, Prompted("IncludedFuncTagKeys", TRUE, r,
                                           rec.IncludedFuncTagKeys, res))
            /\ Goto(res.err, "IncludedFuncRegions")

PromptIncludedFuncRegions ==
    /\ pc = "IncludedFuncRegions"
    /\ \E r \in ListAnswers :
        LET res == inputStringArrayParameter(r, rec.IncludedFuncRegions, TRUE)
        IN  /\ rec' = [rec EXCEPT !.IncludedFuncRegions = res.p]
            /\ log' = Append(log, Prompted("IncludedFuncRegions", TRUE, r,
                                           rec.IncludedFuncRegions, res))
            /\ Goto(res.err, "Action")

PromptAction ==
    /\ pc = "Action"
    /\ \E r \in ChoiceAnswers :
        LET res == inputMultipleChoiceParameter(r, rec.Action, ActionChoices, TRUE)
        IN  /\ rec' = [rec EXCEPT !.Action = res.p]
            /\ log' = Append(log, Prompted("Action", TRUE, r, rec.Action, res))
            /\ Goto(res.err, "SnsTopicArn")

PromptSnsTopicArn ==
    /\ pc = "SnsTopicArn"
    /\ \E r \in TextAnswers :
        LET res == inputStringParameter(r, rec.SnsTopicArn, TRUE)
        IN  /\ rec' = [rec EXCEPT !.SnsTopicArn = res.p]
            /\ log' = Append(log, Prompted("SnsTopicArn", TRUE, r, rec.SnsTopicArn, res))
            /\ Goto(res.err, IF res.p # Empty THEN "IsSnsTopicExist" ELSE "CloudTrail")

IsSnsTopicExist ==
    /\ pc = "IsSnsTopicExist"
    /\ \E exists \in BOOLEAN :
        /\ log' = Append(log, Called("IsSnsTopicExist", rec.SnsTopicArn, exists))
        /\ Goto(IF exists THEN Nil ELSE ErrSnsTopic, "CloudTrail")
    /\ UNCHANGED rec

PromptCloudTrail ==
    /\ pc = "CloudTrail"
    /\ \E r \in TextAnswers :
        LET res == inputStringParameter(r, rec.CloudTrail.Name, TRUE)
        IN  /\ rec' = [rec EXCEPT !.CloudTrail.Name = res.p]
            /\ log' = Append(log, Prompted("CloudTrail", TRUE, r, rec.CloudTrail.Name, res))
            /\ Goto(res.err, IF res.p # Empty THEN "IsCloudTrailExist" ELSE "IsKeyless")

IsCloudTrailExist ==
    /\ pc = "IsCloudTrailExist"
    /\ \E exists \in BOOLEAN :
        /\ log' = Append(log, Called("IsCloudTrailExist", rec.CloudTrail.Name, exists))
        /\ Goto(IF exists THEN Nil ELSE ErrCloudTrail, "IsKeyless")
    /\ UNCHANGED rec

PromptIsKeyless ==
    /\ pc = "IsKeyless"
    /\ \E r \in YesNoAnswers :
        LET res == inputYesNoParameter(r, rec.IsKeyless, FALSE)
        IN  /\ rec' = [rec EXCEPT !.IsKeyless = res.p]
            /\ log' = Append(log, Prompted("IsKeyless", FALSE, r, rec.IsKeyless, res))
            /\ Goto(res.err, IF ~res.p THEN "PublicKey" ELSE "digestParameters")

\* inputKeyPair, first prompt
PromptPublicKey ==
    /\ pc = "PublicKey"
    /\ \E r \in TextAnswers :
        LET res == inputStringParameter(r, rec.PublicKey, TRUE)
        IN  /\ rec' = [rec EXCEPT !.PublicKey = res.p]
            /\ log' = Append(log, Prompted("PublicKey", TRUE, r, rec.PublicKey, res))
            /\ Goto(res.err, IF res.p # Empty THEN "PrivateKey" ELSE "digestParameters")

\* variant: the private key may be left empty
PromptPrivateKey_Optional ==
    /\ pc = "PrivateKey"
    /\ \E r \in TextAnswers :
        LET res == inputStringParameter(r, rec.PrivateKey, TRUE)
        IN  /\ rec' = [rec EXCEPT !.PrivateKey = res.p]
            /\ log' = Append(log, Prompted("PrivateKey", TRUE, r, rec.PrivateKey, res))
            /\ Goto(res.err, "digestParameters")

\* inputKeyPair, second prompt
PromptPrivateKey ==
    /\ pc = "PrivateKey"
    /\ \E r \in TextAnswers :
        LET res == inputStringParameter(r, rec.PrivateKey, FALSE)
        IN  /\ rec' = [rec EXCEPT !.PrivateKey = res.p]
            /\ log' = Append(log, Prompted("PrivateKey", FALSE, r, rec.PrivateKey, res))
            /\ Goto(res.err, "digestParameters")

\* variant: the keyless test is not negated
digestParameters_Keyless(i, generated) ==
    IF i.PublicKey = Empty /\ i.IsKeyless
    THEN IF ~generated
         THEN [i |-> i, err |-> ErrGenerate, ran |-> TRUE]
         ELSE [i |-> [i EXCEPT !.PublicKey = CosignPub, !.PrivateKey = CosignKey],
               err |-> Nil, ran |-> TRUE]
    ELSE [i |-> i, err |-> Nil, ran |-> FALSE]

\* digestParameters on record i, generated answering whether
\* generate.GenerateKeyPairCmd succeeds should it be run
digestParameters(i, generated) ==
    IF i.PublicKey = Empty /\ ~i.IsKeyless
    THEN IF ~generated
         THEN [i |-> i, err |-> ErrGenerate, ran |-> TRUE]
         ELSE [i |-> [i EXCEPT !.PublicKey = CosignPub, !.PrivateKey = CosignKey],
               err |-> Nil, ran |-> TRUE]
    ELSE [i |-> i, err |-> Nil, ran |-> FALSE]

DigestParameters ==
    /\ pc = "digestParameters"
    /\ \E generated \in BOOLEAN :
        LET res == digestParameters(rec, generated)
        IN  /\ rec' = res.i
            /\ log' = IF res.ran
                      THEN Append(log, Called("GenerateKeyPairCmd", <<>>, generated))
                      ELSE log
            /\ Goto(res.err, "done")

Init ==
    /\ rec = AWSInput
    /\ pc = "AccessKey"
    /\ ret = Nil
    /\ log = <<>>

Next ==
    \/ PromptAccessKey
    \/ PromptSecretKey
    \/ PromptRegion
    \/ ValidateCredentials
    \/ PromptBucket
    \/ IsBucketExist
    \/ PromptIncludedFuncTagKeys
    \/ PromptIncludedFuncRegions
    \/ PromptAction
    \/ PromptSnsTopicArn
    \/ IsSnsTopicExist
    \/ PromptCloudTrail
    \/ IsCloudTrailExist
    \/ PromptIsKeyless
    \/ PromptPublicKey
    \/ PromptPrivateKey
    \/ DigestParameters

Spec == Init /\ [][Next]_vars

----------------------------------------------------------------------------
(* One prompt called on its own, on a record that already holds values,    *)
(* with either value of the em flag and any answer of at most MaxLen       *)
(* characters.                                                             *)

PriorInputs ==
    {[AWSInput EXCEPT !.Bucket = b, !.IncludedFuncTagKeys = t, !.Action = a, !.IsKeyless = k] :
        b \in {Empty, <<"a">>}, t \in {<<>>, << <<"a">> >>},
        a \in {Empty, Detect, Block, <<"a">>}, k \in BOOLEAN}

Answers == ReadString(Alphabet, MaxLen)

CallInputStringParameter ==
    /\ pc = "prompt"
    /\ \E em \in BOOLEAN, r \in Answers :
        LET res == inputStringParameter(r, rec.Bucket, em)
        IN  /\ rec' = [rec EXCEPT !.Bucket = res.p]
            /\ log' = <<Prompted("inputStringParameter", em, r, rec.Bucket, res)>>
            /\ ret' = res.err
    /\ pc' = "done"

CallInputStringArrayParameter ==
    /\ pc = "prompt"
    /\ \E em \in BOOLEAN, r \in Answers :
        LET res == inputStringArrayParameter(r, rec.IncludedFuncTagKeys, em)
        IN  /\ rec' = [rec EXCEPT !.IncludedFuncTagKeys = res.p]
            /\ log' = <<Prompted("inputStringArrayParameter", em, r,
                                 rec.IncludedFuncTagKeys, res)>>
            /\ ret' = res.err
    /\ pc' = "done"

CallInputYesNoParameter ==
    /\ pc = "prompt"
    /\ \E em \in BOOLEAN, r \in Answers :
        LET res == inputYesNoParameter(r, rec.IsKeyless, em)
        IN  /\ rec' = [rec EXCEPT !.IsKeyless = res.p]
            /\ log' = <<Prompted("inputYesNoParameter", em, r, rec.IsKeyless, res)>>
            /\ ret' = res.err
    /\ pc' = "done"

CallInputMultipleChoiceParameter ==
    /\ pc = "prompt"
    /\ \E em \in BOOLEAN, r \in Answers :
        LET res == inputMultipleChoiceParameter(r, rec.Action, ActionChoices, em)
        IN  /\ rec' = [rec EXCEPT !.Action = res.p]
            /\ log' = <<Prompted("inputMultipleChoiceParameter", em, r, rec.Action, res)>>
            /\ ret' = res.err
    /\ pc' = "done"

PromptInit ==
    /\ rec \in PriorInputs
    /\ pc = "prompt"
    /\ ret = Nil
    /\ log = <<>>

PromptNext ==
    \/ CallInputStringParameter
    \/ CallInputStringArrayParameter
    \/ CallInputYesNoParameter
    \/ CallInputMultipleChoiceParameter

PromptSpec == PromptInit /\ [][PromptNext]_vars

\* the value the field a single prompt targets holds
Target(op) ==
    CASE op = "inputStringParameter" -> rec.Bucket
      [] op = "inputStringArrayParameter" -> rec.IncludedFuncTagKeys
      [] op = "inputYesNoParameter" -> rec.IsKeyless
      [] op = "inputMultipleChoiceParameter" -> rec.Action

\* the most recent history entry
Last == log[Len(log)]

\* the wizard and the single prompts together
AllInit == Init \/ PromptInit

AllNext == Next \/ PromptNext

AllSpec == AllInit /\ [][AllNext]_vars

----------------------------------------------------------------------------
(* Vocabulary of the properties *)

\* the positions of the history entries of operation op
At(op) == {k \in 1..Len(log) : log[k].op = op}

\* what the operator typed before pressing enter, for an entry whose read
\* ended with a newline
Typed(e) == SubSeq(e.arg, 1, Len(e.arg) - 1)

\* the read of entry e returned a whole line
WholeLine(e) == e.kind = "prompt" /\ e.readErr = Nil

\* the read of entry e returned a bare newline
EmptyLine(e) == WholeLine(e) /\ e.arg = <<NL>>

\* a single prompt has been called and has returned
Returned(op) == pc = "done" /\ Len(log) = 1 /\ log[1].op = op

SinglePrompts ==
    {"inputStringParameter", "inputStringArrayParameter", "inputYesNoParameter",
     "inputMultipleChoiceParameter"}

\* the error kinds of the specification
MissingParameterError(e) == e = ErrCompulsory
InputError(e) == e = ErrRead

----------------------------------------------------------------------------
\* C1: a prompt of any of the four kinds called as mandatory and answered with
\* a bare newline returns the missing-parameter error and leaves its target
\* field at the value it held before the call.
C1_MandatoryEmptyLine ==
    \A op \in SinglePrompts :
        (Returned(op) /\ ~log[1].em /\ EmptyLine(log[1]))
            => (MissingParameterError(ret) /\ Target(op) = log[1].prior)

C1_Witness ==
    /\ Returned("inputStringParameter")
    /\ ~log[1].em /\ EmptyLine(log[1])
    /\ log[1].prior = <<"a">> /\ rec.Bucket = <<"a">>
    /\ ret = ErrCompulsory

----------------------------------------------------------------------------
\* the prompts and calls ReceiveParameters makes after the credential check
AfterCredentials ==
    {"Bucket", "IsBucketExist", "IncludedFuncTagKeys", "IncludedFuncRegions", "Action",
     "SnsTopicArn", "IsSnsTopicExist", "CloudTrail", "IsCloudTrailExist", "IsKeyless",
     "PublicKey", "PrivateKey", "GenerateKeyPairCmd"}

\* C2: ReceiveParameters is fail-fast: a step that fails (a prompt returning
\* an error, or a credential, bucket, topic or trail check answering false, or
\* the generation failing) is the last thing the wizard does: the wizard has
\* returned with an error, and no prompt, query or generation follows it.  A
\* failed credential check returns the credentials error and none of the
\* bucket prompt and the later steps is ever made.
C2_FailFast ==
    /\ \A k \in 1..Len(log) :
           ~log[k].ok => (k = Len(log) /\ pc = "done" /\ ret # Nil)
    /\ (\E k \in At("ValidateCredentials") : ~log[k].ok)
           => (ret = ErrCredentials /\ \A op \in AfterCredentials : At(op) = {})

C2_Witness ==
    /\ pc = "done"
    /\ Len(log) = 4
    /\ log[4].op = "ValidateCredentials" /\ ~log[4].ok
    /\ ret = ErrCredentials

\* C3: from an empty record, when IsKeyless stays false after the keyless
\* prompt and the public key prompt is answered with a bare newline, the
\* finished wizard has run the key-pair generation exactly once and never
\* issued the private key prompt; when the generation succeeded the wizard
\* returned no error and the record names cosign.pub and cosign.key.
C3_GenerateOnce ==
    (/\ pc = "done"
     /\ \E k \in At("IsKeyless") : log[k].ok
     /\ ~rec.IsKeyless
     /\ \E k \in At("PublicKey") : EmptyLine(log[k]))
        => /\ Cardinality(At("GenerateKeyPairCmd")) = 1
           /\ At("PrivateKey") = {}
           /\ \A k \in At("GenerateKeyPairCmd") :
                  log[k].ok => /\ ret = Nil
                               /\ rec.PublicKey = CosignPub
                               /\ rec.PrivateKey = CosignKey

C3_Witness ==
    /\ pc = "done" /\ ret = Nil
    /\ ~rec.IsKeyless
    /\ \E k \in At("PublicKey") : EmptyLine(log[k])
    /\ \E k \in At("GenerateKeyPairCmd") : log[k].ok
    /\ rec.PublicKey = CosignPub /\ rec.PrivateKey = CosignKey

\* some query op about arg was made and answered true
Checked(op, arg) == \E k \in At(op) : log[k].arg = arg /\ log[k].ok

\* C10: when the wizard, started on an empty record, returns without error,
\* the three credentials are non-empty and were checked valid; the bucket,
\* the SNS topic and the trail are each empty or were checked to exist; the
\* action is empty, detect or block; and either the mode is keyless with both
\* key paths empty, or it is not and both key paths are non-empty: the
\* operator's own with no generation, or cosign.pub and cosign.key after
\* exactly one generation.
C10_CompleteOnSuccess ==
    (pc = "done" /\ ret = Nil)
        => /\ rec.AccessKey # Empty /\ rec.SecretKey # Empty /\ rec.Region # Empty
           /\ Checked("ValidateCredentials", <<rec.AccessKey, rec.SecretKey, rec.Region>>)
           /\ rec.Bucket = Empty \/ Checked("IsBucketExist", rec.Bucket)
           /\ rec.SnsTopicArn = Empty \/ Checked("IsSnsTopicExist", rec.SnsTopicArn)
           /\ rec.CloudTrail.Name = Empty \/ Checked("IsCloudTrailExist", rec.CloudTrail.Name)
           /\ rec.Action \in {Empty, Detect, Block}
           /\ \/ /\ rec.IsKeyless
                 /\ rec.PublicKey = Empty /\ rec.PrivateKey = Empty
                 /\ At("GenerateKeyPairCmd") = {}
              \/ /\ ~rec.IsKeyless
                 /\ rec.PublicKey # Empty /\ rec.PrivateKey # Empty
                 /\ \/ /\ At("GenerateKeyPairCmd") = {}
                       /\ \E k \in At("PublicKey") : Typed(log[k]) = rec.PublicKey
                       /\ \E k \in At("PrivateKey") : Typed(log[k]) = rec.PrivateKey
                    \/ /\ Cardinality(At("GenerateKeyPairCmd")) = 1
                       /\ rec.PublicKey = CosignPub /\ rec.PrivateKey = CosignKey

C10_Witness ==
    /\ pc = "done" /\ ret = Nil
    /\ rec.AccessKey # Empty
    /\ rec.Bucket # Empty /\ rec.CloudTrail.Name # Empty
    /\ ~rec.IsKeyless
    /\ At("GenerateKeyPairCmd") = {}
    /\ rec.PublicKey = <<"a">> /\ rec.PrivateKey = <<"a">>

----------------------------------------------------------------------------
\* C4: an optional list prompt of the wizard (IncludedFuncTagKeys,
\* IncludedFuncRegions) answered with a bare newline returns no error and
\* leaves a sequence of length 0 in its field.
C4_OptionalListEmpty ==
    /\ \A k \in At("IncludedFuncTagKeys") :
           EmptyLine(log[k]) => (log[k].ok /\ Len(rec.IncludedFuncTagKeys) = 0)
    /\ \A k \in At("IncludedFuncRegions") :
           EmptyLine(log[k]) => (log[k].ok /\ Len(rec.IncludedFuncRegions) = 0)

ValidationError(e) == e.kind = "validation error"

\* C5: an existence check answering false makes the wizard return a
\* validation error naming the resource checked: the bucket for the bucket
\* check, the SNS topic for the topic check, the trail for the trail check.
C5_ErrorNamesResource ==
    /\ (\E k \in At("IsBucketExist") : ~log[k].ok)
           => (pc = "done" /\ ValidationError(ret) /\ ret.about = "bucket")
    /\ (\E k \in At("IsSnsTopicExist") : ~log[k].ok)
           => (pc = "done" /\ ValidationError(ret) /\ ret.about = "SNS topic")
    /\ (\E k \in At("IsCloudTrailExist") : ~log[k].ok)
           => (pc = "done" /\ ValidationError(ret) /\ ret.about = "trail")

\* C9: a prompt of any kind, mandatory or optional, whose read fails (end of
\* input before a newline, with or without text read) returns the input
\* error, which is not the missing-parameter error.
C9_ReadFailureIsInputError ==
    \A op \in SinglePrompts :
        (Returned(op) /\ log[1].readErr # Nil)
            => (InputError(ret) /\ ~MissingParameterError(ret))

----------------------------------------------------------------------------
\* the field of record i that the wizard's prompt op stores into
FieldOf(i, op) ==
    CASE op = "AccessKey" -> i.AccessKey
      [] op = "SecretKey" -> i.SecretKey
      [] op = "Region" -> i.Region
      [] op = "Bucket" -> i.Bucket
      [] op = "IncludedFuncTagKeys" -> i.IncludedFuncTagKeys
      [] op = "IncludedFuncRegions" -> i.IncludedFuncRegions
      [] op = "Action" -> i.Action
      [] op = "SnsTopicArn" -> i.SnsTopicArn
      [] op = "CloudTrail" -> i.CloudTrail.Name
      [] op = "IsKeyless" -> i.IsKeyless
      [] op = "PublicKey" -> i.PublicKey
      [] op = "PrivateKey" -> i.PrivateKey

TextPrompts ==
    {"AccessKey", "SecretKey", "Region", "Bucket", "SnsTopicArn", "CloudTrail",
     "PublicKey", "PrivateKey"}

WizardPrompts ==
    TextPrompts \cup {"IncludedFuncTagKeys", "IncludedFuncRegions", "Action", "IsKeyless"}

----------------------------------------------------------------------------
\* C7: the multiple-choice prompt over {"1": "detect", "2": "block"}, called
\* as optional and given a whole line, returns no error and, whatever the
\* field held: stores detect on "1", block on "2", the empty string on an
\* empty line, and leaves the field as it was on any other answer.
C7_MultipleChoice ==
    (Returned("inputMultipleChoiceParameter") /\ log[1].em /\ WholeLine(log[1]))
        => /\ ret = Nil
           /\ Typed(log[1]) = <<"1">> => rec.Action = Detect
           /\ Typed(log[1]) = <<"2">> => rec.Action = Block
           /\ Typed(log[1]) = Empty => rec.Action = Empty
           /\ Typed(log[1]) \notin {<<"1">>, <<"2">>, Empty} => rec.Action = log[1].prior

C7_Witness ==
    /\ Returned("inputMultipleChoiceParameter") /\ log[1].em
    /\ log[1].arg = <<"9", NL>> /\ log[1].readErr = Nil
    /\ log[1].prior = Detect /\ rec.Action = Detect
    /\ ret = Nil

----------------------------------------------------------------------------
Blank == {" ", "\t", "\r"}

\* text t is the single letter of letters, with blanks around it at most
IsLetter(t, letters) ==
    \E k \in 1..Len(t) :
        t[k] \in letters /\ \A j \in (1..Len(t)) \ {k} : t[j] \in Blank

IsYes(t) == IsLetter(t, {"y", "Y"})
IsNo(t) == IsLetter(t, {"n", "N"})

\* C8: the yes/no prompt given a whole non-empty line returns no error and
\* sets the boolean true on y, false on n (any case, blanks around ignored)
\* and leaves it as it was on anything else; so in the wizard an unrecognised
\* non-empty keyless answer leaves IsKeyless false and the next step is the
\* public key prompt.
C8_YesNo ==
    /\ (Returned("inputYesNoParameter") /\ WholeLine(log[1]) /\ Typed(log[1]) # Empty)
           => /\ ret = Nil
              /\ rec.IsKeyless = IF IsYes(Typed(log[1])) THEN TRUE
                                 ELSE IF IsNo(Typed(log[1])) THEN FALSE
                                 ELSE log[1].prior
    /\ \A k \in At("IsKeyless") :
           (/\ WholeLine(log[k]) /\ Typed(log[k]) # Empty
            /\ ~IsYes(Typed(log[k])) /\ ~IsNo(Typed(log[k])))
               => /\ log[k].ok
                  /\ ~rec.IsKeyless
                  /\ IF k = Len(log) THEN pc = "PublicKey" ELSE log[k + 1].op = "PublicKey"

C8_Witness ==
    /\ pc = "PublicKey"
    /\ Last.op = "IsKeyless" /\ Last.arg = <<"a", NL>> /\ Last.readErr = Nil
    /\ ~rec.IsKeyless
    /\ ret = Nil

====
